---- MODULE Spec2Model ----
(***************************************************************************)
(* State-machine model of the business logic of the mytriv-erp addons:     *)
(* journal entries (account.move.custom), bank reconciliation, funnel      *)
(* analytics, the REST controllers, the ORM constraints on dates, account  *)
(* codes and attendances, and the generated lead ids.  Money is counted in *)
(* cents, so the 0.01 tolerance of the code is 1.  Every record kind has   *)
(* its own specification; each one leaves the variables of the other       *)
(* record kinds unchanged.                                                 *)
(***************************************************************************)
EXTENDS Integers, Sequences, FiniteSets, TLC

VARIABLES
    moves,      \* account.move.custom: id -> state, line_ids and the stored computed fields
    approvals,  \* account.move.custom: id -> approval_status, approved_by, approval_date
    recons,     \* account.reconciliation.helper: id -> status, balances, statement totals
    calc,       \* one call of _calculate_next_recurring_date: its inputs and what it returned
    journal,    \* account.move.custom: id -> date and the recurrence fields
    funnel,     \* one crm.funnel.analytics record: the lead counts and the stored rates
    store,      \* the table a REST request addresses: the last id given and id -> value
    response,   \* the last REST request and what left the controller method
    dated,      \* hr.leave, hr.contract and crm.meeting records: id -> model and its two dates
    clock,      \* datetime.now(), in days
    accounts,   \* account.account.custom: id -> code, company_id
    call,       \* the last create or write on a constrained model and the table it asks for
    leads,      \* crm.lead: id -> lead_id
    lead_seq,   \* the ir.sequence with code crm.lead: whether it exists and its next number
    lead_req,   \* create requests on crm.lead: idle, or the lead_id generated and not yet inserted
    attendances, \* hr.attendance: id -> check_in, check_out
    move_lines, \* account.move.line: id -> debit, credit, whether the search of the helper finds it, reconciled
    txn,        \* process_recurring_entries requests: idle, or the journal as the transaction of the request sees it
    result      \* the last operation, the records it was called on and how it ended

vars ==
    <<moves, approvals, recons, calc, journal, funnel, store, response, dated, clock,
      accounts, call, leads, lead_seq, lead_req, attendances, move_lines, txn, result>>

\* what the operations on one record kind leave alone
notMoves ==
    <<approvals, recons, calc, journal, funnel, store, response, dated, clock, accounts,
      call, leads, lead_seq, lead_req, attendances, move_lines, txn>>
notApprovals ==
    <<moves, recons, calc, journal, funnel, store, response, dated, clock, accounts, call,
      leads, lead_seq, lead_req, attendances, move_lines, txn>>
notRecons ==
    <<moves, approvals, calc, journal, funnel, store, response, dated, clock, accounts,
      call, leads, lead_seq, lead_req, attendances, move_lines, txn>>
notCalc ==
    <<moves, approvals, recons, journal, funnel, store, response, dated, clock, accounts,
      call, leads, lead_seq, lead_req, attendances, move_lines, txn>>
notJournal ==
    <<moves, approvals, recons, calc, funnel, store, response, dated, clock, accounts,
      call, leads, lead_seq, lead_req, attendances, move_lines, txn>>
notFunnel ==
    <<moves, approvals, recons, calc, journal, store, response, dated, clock, accounts,
      call, leads, lead_seq, lead_req, attendances, move_lines, txn>>
notHttp ==
    <<moves, approvals, recons, calc, journal, funnel, dated, clock, accounts, call,
      leads, lead_seq, lead_req, attendances, move_lines, txn, result>>
notDated ==
    <<moves, approvals, recons, calc, journal, funnel, store, response, accounts, leads,
      lead_seq, lead_req, attendances, move_lines, txn>>
notLeads ==
    <<moves, approvals, recons, calc, journal, funnel, store, response, dated, clock,
      accounts, call, attendances, move_lines, txn>>
notAttendances ==
    <<moves, approvals, recons, calc, journal, funnel, store, response, dated, clock,
      accounts, leads, lead_seq, lead_req, move_lines, txn>>
notMatch ==
    <<moves, approvals, calc, journal, funnel, store, response, dated, clock, accounts,
      call, leads, lead_seq, lead_req, attendances, txn>>
notJournalTx ==
    <<moves, approvals, recons, calc, funnel, store, response, dated, clock, accounts,
      call, leads, lead_seq, lead_req, attendances, move_lines>>
notAccounts ==
    <<moves, approvals, recons, calc, journal, funnel, store, response, dated, clock,
      leads, lead_seq, lead_req, attendances, move_lines, txn>>

Abs(x) == IF x < 0 THEN 0 - x ELSE x

Max(S) == CHOOSE x \in S : \A y \in S : y <= x

\* the id the ORM gives the next record of a table: ids are never reused
NextId(table) == IF DOMAIN table = {} THEN 1 ELSE Max(DOMAIN table) + 1

Res(op, rec, status) == [op |-> op, rec |-> rec, status |-> status]

----------------------------------------------------------------------------
(* Journal entries: totals, is_balanced and the balance constraint *)

MaxMoves == 1
MaxLines == 2
MaxAmount == 2

Tolerance == 1

MoveStates == {"draft", "posted", "cancel"}

Amounts == 0..MaxAmount

MoveLine == [debit : Amounts, credit : Amounts]

LineSeqs == UNION {[1..n -> MoveLine] : n \in 0..MaxLines}

RECURSIVE SumDebit(_)
SumDebit(lines) ==
    IF lines = <<>> THEN 0 ELSE Head(lines).debit + SumDebit(Tail(lines))

RECURSIVE SumCredit(_)
SumCredit(lines) ==
    IF lines = <<>> THEN 0 ELSE Head(lines).credit + SumCredit(Tail(lines))

\* _compute_totals then _compute_is_balanced, in dependency order
compute_is_balanced(total_debit, total_credit) ==
    Abs(total_debit - total_credit) <= Tolerance

compute_totals(move) ==
    [move EXCEPT !.total_debit = SumDebit(move.line_ids),
                 !.total_credit = SumCredit(move.line_ids),
                 !.is_balanced = compute_is_balanced(SumDebit(move.line_ids),
                                                     SumCredit(move.line_ids))]

\* the fields whose write or recomputation runs _check_balance
check_balance_constrains == {"is_balanced"}

\* stored computed fields the ORM recomputes when the fields in keys are written
Recomputed(keys) ==
    IF "line_ids" \in keys THEN {"total_debit", "total_credit", "is_balanced"} ELSE {}

\* TRUE when _check_balance raises ValidationError for the move
check_balance_raises(move) ==
    move.state = "posted" /\ ~move.is_balanced

\* the ORM runs a constraint when one of its fields is written or recomputed
ConstraintRuns(constrains, keys) ==
    (keys \cup Recomputed(keys)) \cap constrains # {}

\* create(vals): every stored computed field is computed, every constraint runs
MoveCreate ==
    /\ Cardinality(DOMAIN moves) < MaxMoves
    /\ \E st \in {"draft", "posted"}, lines \in LineSeqs :
         LET id == NextId(moves)
             move == compute_totals([state |-> st, line_ids |-> lines,
                                     total_debit |-> 0, total_credit |-> 0,
                                     is_balanced |-> TRUE])
         IN IF check_balance_raises(move)
            THEN /\ moves' = moves
                 /\ result' = Res("create", {id}, "ValidationError")
            ELSE /\ moves' = moves @@ (id :> move)
                 /\ result' = Res("create", {id}, "ok")
    /\ UNCHANGED notMoves

\* write(vals) on one move, vals holding the fields named in keys
WriteMove(id, keys, st, lines, op) ==
    LET m1 == IF "state" \in keys THEN [moves[id] EXCEPT !.state = st] ELSE moves[id]
        m2 == IF "line_ids" \in keys
              THEN compute_totals([m1 EXCEPT !.line_ids = lines])
              ELSE m1
    IN IF ConstraintRuns(check_balance_constrains, keys) /\ check_balance_raises(m2)
       THEN /\ moves' = moves
            /\ result' = Res(op, {id}, "ValidationError")
       ELSE /\ moves' = [moves EXCEPT ![id] = m2]
            /\ result' = Res(op, {id}, "ok")

\* a write that changes the line amounts
MoveWriteLines ==
    \E id \in DOMAIN moves, lines \in LineSeqs :
        /\ WriteMove(id, {"line_ids"}, moves[id].state, lines, "write_lines")
        /\ UNCHANGED notMoves

\* a write of state together with the lines
MoveWriteBoth ==
    \E id \in DOMAIN moves, st \in MoveStates, lines \in LineSeqs :
        /\ WriteMove(id, {"state", "line_ids"}, st, lines, "write_both")
        /\ UNCHANGED notMoves

\* account.move action_post: self.write({'state': 'posted'})
action_post ==
    \E id \in DOMAIN moves :
        /\ WriteMove(id, {"state"}, "posted", moves[id].line_ids, "action_post")
        /\ UNCHANGED notMoves

\* account.move action_cancel: self.write({'state': 'cancel'})
action_cancel ==
    \E id \in DOMAIN moves :
        /\ WriteMove(id, {"state"}, "cancel", moves[id].line_ids, "action_cancel")
        /\ UNCHANGED notMoves

----------------------------------------------------------------------------
(* Journal entries: the approval workflow *)

MaxEntries == 2
MaxUsers == 2
MaxTime == 2

ApprovalStatuses == {"draft", "pending", "approved", "rejected"}

Users == 1..MaxUsers

Times == 1..MaxTime

\* approved_by and approval_date are 0 while unset
NewApproval == [approval_status |-> "draft", approved_by |-> 0, approval_date |-> 0]

ApprovalCreate ==
    /\ Cardinality(DOMAIN approvals) < MaxEntries
    /\ approvals' = approvals @@ (NextId(approvals) :> NewApproval)
    /\ result' = Res("create", {NextId(approvals)}, "ok")
    /\ UNCHANGED notApprovals

\* the body of the loop of action_approve_entry for one move
approve_wrong(move, user, now) ==
    IF move.approval_status \in {"draft", "pending"}
    THEN [approval_status |-> "approved", approved_by |-> user, approval_date |-> now]
    ELSE move

approve_entry(move, user, now) ==
    IF move.approval_status = "pending"
    THEN [approval_status |-> "approved", approved_by |-> user, approval_date |-> now]
    ELSE move

\* the body of the loop of action_reject_entry for one move
reject_entry(move, user, now) ==
    IF move.approval_status \in {"pending", "approved"}
    THEN [approval_status |-> "rejected", approved_by |-> user, approval_date |-> now]
    ELSE move

\* the body of the loop of action_submit_for_approval for one move
submit_for_approval(move) ==
    IF move.approval_status = "draft"
    THEN [move EXCEPT !.approval_status = "pending"]
    ELSE move

Recordsets(table) == SUBSET (DOMAIN table) \ {{}}

action_approve_entry ==
    /\ \E ids \in Recordsets(approvals), user \in Users, now \in Times :
         /\ approvals' = [id \in DOMAIN approvals |->
                            IF id \in ids THEN approve_entry(approvals[id], user, now)
                            ELSE approvals[id]]
         /\ result' = Res("action_approve_entry", ids, "ok")
    /\ UNCHANGED notApprovals

action_reject_entry ==
    /\ \E ids \in Recordsets(approvals), user \in Users, now \in Times :
         /\ approvals' = [id \in DOMAIN approvals |->
                            IF id \in ids THEN reject_entry(approvals[id], user, now)
                            ELSE approvals[id]]
         /\ result' = Res("action_reject_entry", ids, "ok")
    /\ UNCHANGED notApprovals

action_submit_for_approval ==
    /\ \E ids \in Recordsets(approvals) :
         /\ approvals' = [id \in DOMAIN approvals |->
                            IF id \in ids THEN submit_for_approval(approvals[id])
                            ELSE approvals[id]]
         /\ result' = Res("action_submit_for_approval", ids, "ok")
    /\ UNCHANGED notApprovals

----------------------------------------------------------------------------
(* Bank reconciliation helper: status, statement totals and difference *)

MaxRecons == 1
MaxTx == 1

ReconStatuses == {"draft", "in_progress", "completed", "failed"}

\* starting_balance and ending_balance of a new record
Balances == {0, 1}

\* a transaction of the imported statement: its type and its amount
Transaction == [type : {"debit", "credit"}, amount : {1}]

TransactionSeqs == UNION {[1..n -> Transaction] : n \in 0..MaxTx}

\* adjustment_amount of action_create_adjustment_entry
AdjustmentAmounts == {0 - 1, 0, 1}

Range(seq) == {seq[i] : i \in DOMAIN seq}

\* a recordset: the records of a table, each once, in the order of the iteration
RecordSeqs(table) ==
    {seq \in UNION {[1..n -> DOMAIN table] : n \in 1..Cardinality(DOMAIN table)} :
        \A i, j \in DOMAIN seq : i # j => seq[i] # seq[j]}

compute_reconciled_balance(rec) ==
    [rec EXCEPT !.reconciled_balance =
        rec.starting_balance + rec.total_credits - rec.total_debits]

compute_difference(rec) ==
    [rec EXCEPT !.difference = rec.ending_balance - rec.reconciled_balance]

\* the recomputation after a write of a balance or of a statement total
RecomputeRecon(rec) == compute_difference(compute_reconciled_balance(rec))

\* a new record: the defaults of the fields, and the stored computed fields
NewRecon(sb, eb) ==
    RecomputeRecon(
        [status |-> "draft", starting_balance |-> sb, ending_balance |-> eb,
         total_transactions |-> 0, total_debits |-> 0, total_credits |-> 0,
         matched_transactions |-> 0, unmatched_transactions |-> 0,
         reconciled_balance |-> 0, difference |-> 0])

ReconCreate ==
    /\ Cardinality(DOMAIN recons) < MaxRecons
    /\ \E sb \in Balances, eb \in Balances :
         LET rec == NewRecon(sb, eb)
         IN /\ recons' = recons @@ (NextId(recons) :> rec)
            /\ result' = Res("create", {NextId(recons)}, "ok")
    /\ UNCHANGED notRecons

\* self.write({'status': status}) on the whole recordset
WriteStatus(table, ids, status) ==
    [id \in DOMAIN table |->
        IF id \in ids THEN [table[id] EXCEPT !.status = status] ELSE table[id]]

action_start_reconciliation ==
    /\ \E seq \in RecordSeqs(recons) :
         /\ recons' = WriteStatus(recons, Range(seq), "in_progress")
         /\ result' = Res("action_start_reconciliation", Range(seq), "ok")
    /\ UNCHANGED notRecons

action_fail_reconciliation ==
    /\ \E seq \in RecordSeqs(recons) :
         /\ recons' = WriteStatus(recons, Range(seq), "failed")
         /\ result' = Res("action_fail_reconciliation", Range(seq), "ok")
    /\ UNCHANGED notRecons

\* the test of action_complete_reconciliation on one record
can_complete_wrong(rec) == rec.difference >= 0

can_complete(rec) == rec.difference = 0

\* the loop of action_complete_reconciliation: it stops at the first record it raises on
RECURSIVE complete_loop(_, _)
complete_loop(table, seq) ==
    IF seq = <<>> THEN [table |-> table, raised |-> FALSE]
    ELSE IF can_complete(table[Head(seq)])
         THEN complete_loop(WriteStatus(table, {Head(seq)}, "completed"), Tail(seq))
         ELSE [table |-> table, raised |-> TRUE]

\* When the method raises, the transaction of the request is rolled back, unless
\* the caller catches the exception and the request commits what was written.
action_complete_reconciliation ==
    /\ \E seq \in RecordSeqs(recons), rollback \in BOOLEAN :
         LET out == complete_loop(recons, seq)
         IN IF out.raised
            THEN /\ recons' = IF rollback THEN recons ELSE out.table
                 /\ result' = Res("action_complete_reconciliation", Range(seq),
                                  "ValidationError")
            ELSE /\ recons' = out.table
                 /\ result' = Res("action_complete_reconciliation", Range(seq), "ok")
    /\ UNCHANGED notRecons

RECURSIVE SumType(_, _)
SumType(txs, type) ==
    IF txs = <<>> THEN 0
    ELSE (IF Head(txs).type = type THEN Head(txs).amount ELSE 0) + SumType(Tail(txs), type)

\* statement_data is falsy (None or an empty dict), or holds a list of transactions
action_import_statement ==
    /\ \E id \in DOMAIN recons, empty \in BOOLEAN, txs \in TransactionSeqs :
         IF empty
         THEN /\ recons' = recons
              /\ result' = Res("action_import_statement", {id}, "ValidationError")
         ELSE /\ recons' = [recons EXCEPT ![id] =
                    RecomputeRecon([@ EXCEPT !.total_transactions = Len(txs),
                                             !.total_debits = SumType(txs, "debit"),
                                             !.total_credits = SumType(txs, "credit"),
                                             !.status = "draft"])]
              /\ result' = Res("action_import_statement", {id}, "ok")
    /\ UNCHANGED notRecons

\* The adjustment move is created in account.move with the journal and the account
\* of the company; the create is the framework's and may fail.  The move takes
\* adjustment_amount on its two lines and is not read again by the helper.  After
\* the create, difference is written directly: nothing it depends on changed, so
\* it is not recomputed.
action_create_adjustment_entry ==
    /\ \E id \in DOMAIN recons, amount \in AdjustmentAmounts, create_fails \in BOOLEAN :
         IF Abs(recons[id].difference) < Tolerance
         THEN /\ recons' = recons
              /\ result' = Res("action_create_adjustment_entry", {id}, "ValidationError")
         ELSE IF create_fails
         THEN /\ recons' = recons
              /\ result' = Res("action_create_adjustment_entry", {id}, "Error")
         ELSE /\ recons' = [recons EXCEPT ![id].difference = 0]
              /\ result' = Res("action_create_adjustment_entry", {id}, "ok")
    /\ UNCHANGED notRecons

----------------------------------------------------------------------------
(* Bank reconciliation helper: matching *)

MaxMoveLines == 1
MaxMatched == 2

\* an account.move.line as the helper sees it: its amounts, whether it is on the
\* account and within the 30 days of the statement, and its reconciled flag
MoveLineVals ==
    {[debit |-> 1, credit |-> 0], [debit |-> 0, credit |-> 1]}

NewMoveLine(amounts, in_range) ==
    [debit |-> amounts.debit, credit |-> amounts.credit, in_range |-> in_range,
     reconciled |-> FALSE]

\* the test both matching methods make before anything else
in_progress_or_draft(rec) == rec.status \in {"in_progress", "draft"}

in_progress(rec) == rec.status = "in_progress"

\* the search of action_auto_match_transactions
search_move_lines(lines) ==
    {l \in DOMAIN lines : lines[l].in_range /\ ~lines[l].reconciled}

\* abs(line.debit - self.total_debits) < 0.01 or abs(line.credit - self.total_credits) < 0.01
amount_matches(line, rec) ==
    \/ Abs(line.debit - rec.total_debits) < Tolerance
    \/ Abs(line.credit - rec.total_credits) < Tolerance

action_auto_match_transactions ==
    /\ \E id \in DOMAIN recons :
         LET rec == recons[id]
             matched == {l \in search_move_lines(move_lines) :
                            amount_matches(move_lines[l], rec)}
             matched_count == Cardinality(matched)
         IN IF ~in_progress(rec)
            THEN /\ UNCHANGED <<recons, move_lines>>
                 /\ result' = Res("action_auto_match_transactions", {id},
                                  "ValidationError")
            ELSE /\ move_lines' = [l \in DOMAIN move_lines |->
                                     IF l \in matched
                                     THEN [move_lines[l] EXCEPT !.reconciled = TRUE]
                                     ELSE move_lines[l]]
                 /\ recons' = [recons EXCEPT
                      ![id].matched_transactions = matched_count,
                      ![id].unmatched_transactions = rec.total_transactions - matched_count]
                 /\ result' = Res("action_auto_match_transactions", {id}, "ok")
    /\ UNCHANGED notMatch

\* move_line_id may name no line: browse(move_line_id).exists() is then empty;
\* transaction_id is not used
action_manual_match ==
    /\ \E id \in DOMAIN recons, move_line_id \in 1..(MaxMoveLines + 1) :
         LET rec == recons[id]
         IN /\ rec.matched_transactions < MaxMatched
            /\ IF ~in_progress(rec) \/ move_line_id \notin DOMAIN move_lines
               THEN /\ UNCHANGED <<recons, move_lines>>
                    /\ result' = Res("action_manual_match", {id}, "ValidationError")
               ELSE /\ move_lines' = [move_lines EXCEPT ![move_line_id].reconciled = TRUE]
                    /\ recons' = [recons EXCEPT
                         ![id].matched_transactions = @ + 1,
                         ![id].unmatched_transactions = @ - 1]
                    /\ result' = Res("action_manual_match", {id}, "ok")
    /\ UNCHANGED notMatch

----------------------------------------------------------------------------
(* Recurring journal entries: the date arithmetic *)

Date(y, m, d) == [year |-> y, month |-> m, day |-> d]

\* an unset Date field (None, falsy)
NoDate == Date(0, 0, 0)

IsLeap(y) == (y % 4 = 0 /\ y % 100 # 0) \/ y % 400 = 0

DaysInMonth(y, m) ==
    IF m = 2 THEN (IF IsLeap(y) THEN 29 ELSE 28)
    ELSE IF m \in {4, 6, 9, 11} THEN 30 ELSE 31

ValidDate(date) ==
    /\ date.year >= 1
    /\ date.month \in 1..12
    /\ date.day \in 1..DaysInMonth(date.year, date.month)

DateLT(a, b) ==
    \/ a.year < b.year
    \/ a.year = b.year /\ a.month < b.month
    \/ a.year = b.year /\ a.month = b.month /\ a.day < b.day

DateLE(a, b) == a = b \/ DateLT(a, b)

NextDay(date) ==
    IF date.day < DaysInMonth(date.year, date.month)
    THEN Date(date.year, date.month, date.day + 1)
    ELSE IF date.month < 12 THEN Date(date.year, date.month + 1, 1)
    ELSE Date(date.year + 1, 1, 1)

\* date + timedelta(days=n)
RECURSIVE AddDays(_, _)
AddDays(date, n) == IF n = 0 THEN date ELSE AddDays(NextDay(date), n - 1)

\* what a call returns: a date, False, or the ValueError it raised
Returned(kind, date) == [kind |-> kind, date |-> date]

\* date.replace(year=y, month=m): ValueError when the day is not in that month
replace(date, y, m) ==
    IF date.day <= DaysInMonth(y, m)
    THEN Returned("date", Date(y, m, date.day))
    ELSE Returned("ValueError", NoDate)

Periods == {"daily", "weekly", "monthly", "quarterly", "yearly"}

\* _calculate_next_recurring_date of a move with these two fields
calculate_next_recurring_date(recurring_period, next_recurring_date) ==
    LET current_date == next_recurring_date
        new_month == current_date.month + 3
    IN IF next_recurring_date = NoDate THEN Returned("False", NoDate)
       ELSE IF recurring_period = "daily"
            THEN Returned("date", AddDays(current_date, 1))
       ELSE IF recurring_period = "weekly"
            THEN Returned("date", AddDays(current_date, 7))
       ELSE IF recurring_period = "monthly"
            THEN IF current_date.month = 12
                 THEN replace(current_date, current_date.year + 1, 1)
                 ELSE replace(current_date, current_date.year, current_date.month + 1)
       ELSE IF recurring_period = "quarterly"
            THEN IF new_month > 12
                 THEN replace(current_date, current_date.year + (new_month \div 12),
                              new_month % 12)
                 ELSE replace(current_date, current_date.year, new_month)
       ELSE IF recurring_period = "yearly"
            THEN replace(current_date, current_date.year + 1, current_date.month)
       ELSE Returned("False", NoDate)

\* the calendar dates the date arithmetic is tried on: a common year and a leap year
CalendarYears == {2023, 2024}

CalendarDates ==
    {date \in [year : CalendarYears, month : 1..12, day : 1..31] : ValidDate(date)}

CalcInit ==
    \E period \in Periods, date \in CalendarDates :
        calc = [recurring_period |-> period, next_recurring_date |-> date,
                called |-> FALSE, returned |-> Returned("False", NoDate)]

CalculateNext ==
    /\ ~calc.called
    /\ calc' = [calc EXCEPT !.called = TRUE,
                            !.returned = calculate_next_recurring_date(
                                             calc.recurring_period,
                                             calc.next_recurring_date)]
    /\ result' = Res("_calculate_next_recurring_date", {},
                     IF calc'.returned.kind = "ValueError" THEN "ValueError" ELSE "ok")
    /\ UNCHANGED notCalc

----------------------------------------------------------------------------
(* Recurring journal entries: templates and the entries generated from them *)

MaxTemplates == 2
MaxJournal == 4

\* fields.Date.today(), held fixed
Today == Date(2024, 2, 1)

\* The values of a new template: due since yesterday with every period or none
\* (recurring_period is "none" while unset), not yet due, not recurring, and
\* recurring without a date.
TemplateVals ==
    [is_recurring : {TRUE}, recurring_period : Periods \cup {"none"},
     next_recurring_date : {Date(2024, 1, 31)}]
    \cup [is_recurring : {TRUE}, recurring_period : {"daily"},
          next_recurring_date : {Date(2024, 2, 2), NoDate}]
    \cup [is_recurring : {FALSE}, recurring_period : {"monthly"},
          next_recurring_date : {Date(2024, 2, 1)}]

\* origin is history: 0 on an entry a user created, on an entry made by
\* _create_next_recurring_entry the id of the move it was made from
Templates == {id \in DOMAIN journal : journal[id].origin = 0}

\* a move a user creates with the recurrence fields vals
NewTemplate(vals) ==
    [date |-> Date(2024, 1, 1), entry_type |-> "manual",
     is_recurring |-> vals.is_recurring,
     recurring_period |-> vals.recurring_period,
     next_recurring_date |-> vals.next_recurring_date,
     origin |-> 0]

JournalCreate ==
    /\ Cardinality(Templates) < MaxTemplates
    /\ Cardinality(DOMAIN journal) < MaxJournal
    /\ \E vals \in TemplateVals :
         journal' = journal @@ (NextId(journal) :> NewTemplate(vals))
    /\ result' = Res("create", {NextId(journal)}, "ok")
    /\ UNCHANGED notJournal

\* the domain of get_recurring_entries_due on one move
is_due(move) ==
    /\ move.is_recurring
    /\ move.next_recurring_date # NoDate
    /\ DateLE(move.next_recurring_date, Today)

get_recurring_entries_due(table) == {id \in DOMAIN table : is_due(table[id])}

\* new_move_data of _create_next_recurring_entry; the fields it does not name
\* take their defaults
new_move_copy(id, next_date) ==
    [date |-> next_date, entry_type |-> "recurring", is_recurring |-> TRUE,
     recurring_period |-> "daily", next_recurring_date |-> next_date, origin |-> id]

new_move_data(id, next_date) ==
    [date |-> next_date, entry_type |-> "recurring", is_recurring |-> FALSE,
     recurring_period |-> "none", next_recurring_date |-> NoDate, origin |-> id]

\* _create_next_recurring_entry of move id, without the write of
\* next_recurring_date on the original
create_next_without_write(table, id) ==
    LET next_date == calculate_next_recurring_date(table[id].recurring_period,
                                                   table[id].next_recurring_date)
        new == NextId(table)
    IN IF next_date.kind = "ValueError"
       THEN [table |-> table, raised |-> TRUE, created |-> {}]
       ELSE IF next_date.kind = "date"
       THEN [table |-> table @@ (new :> new_move_data(id, next_date.date)),
             raised |-> FALSE, created |-> {new}]
       ELSE [table |-> table, raised |-> FALSE, created |-> {}]

\* _create_next_recurring_entry of move id: the table after it, whether it raised,
\* the ids of the moves it created
create_next_recurring_entry(table, id) ==
    LET next_date == calculate_next_recurring_date(table[id].recurring_period,
                                                   table[id].next_recurring_date)
        new == NextId(table)
    IN IF next_date.kind = "ValueError"
       THEN [table |-> table, raised |-> TRUE, created |-> {}]
       ELSE IF next_date.kind = "date"
       THEN [table |-> [(table @@ (new :> new_move_data(id, next_date.date)))
                            EXCEPT ![id].next_recurring_date = next_date.date],
             raised |-> FALSE, created |-> {new}]
       ELSE [table |-> table, raised |-> FALSE, created |-> {}]

\* the ids of a search, in the order of the ids
RECURSIVE Ascending(_)
Ascending(ids) ==
    IF ids = {} THEN <<>>
    ELSE LET least == CHOOSE x \in ids : \A y \in ids : x <= y
         IN <<least>> \o Ascending(ids \ {least})

\* the loop of process_recurring_entries over due_entries
RECURSIVE process_loop(_, _, _)
process_loop(table, due_entries, created_moves) ==
    IF due_entries = <<>>
    THEN [table |-> table, raised |-> FALSE, created |-> created_moves]
    ELSE LET out == create_next_recurring_entry(table, Head(due_entries))
         IN IF out.raised
            THEN [table |-> out.table, raised |-> TRUE, created |-> created_moves]
            ELSE process_loop(out.table, Tail(due_entries),
                              created_moves \cup out.created)

\* When the method raises, the controller catches the exception and the request
\* commits what was written; a caller that does not catch rolls it back.
process_recurring_entries ==
    /\ Cardinality(DOMAIN journal) + Cardinality(get_recurring_entries_due(journal))
         <= MaxJournal
    /\ \E rollback \in BOOLEAN :
         LET out == process_loop(journal, Ascending(get_recurring_entries_due(journal)), {})
         IN IF out.raised
            THEN /\ journal' = IF rollback THEN journal ELSE out.table
                 /\ result' = Res("process_recurring_entries",
                                  IF rollback THEN {} ELSE out.created, "ValueError")
            ELSE /\ journal' = out.table
                 /\ result' = Res("process_recurring_entries", out.created, "ok")
    /\ UNCHANGED notJournal

\* the loop of action_create_recurring_entries: for a due move it calls
\* _create_next_recurring_entry on self, the whole recordset, whose ensure_one
\* raises ValueError unless the recordset is that one move
RECURSIVE create_recurring_loop(_, _, _)
create_recurring_loop(table, self, rest) ==
    IF rest = <<>> THEN [table |-> table, raised |-> FALSE, created |-> {}]
    ELSE IF is_due(table[Head(rest)])
         THEN IF Len(self) # 1
              THEN [table |-> table, raised |-> TRUE, created |-> {}]
              ELSE create_next_recurring_entry(table, self[1])
         ELSE create_recurring_loop(table, self, Tail(rest))

action_create_recurring_entries ==
    /\ Cardinality(DOMAIN journal) < MaxJournal
    /\ \E ids \in Recordsets(journal) :
         LET self == Ascending(ids)
             out == create_recurring_loop(journal, self, self)
         IN /\ journal' = out.table
            /\ result' = Res("action_create_recurring_entries", ids,
                             IF out.raised THEN "ValueError" ELSE "ok")
    /\ UNCHANGED notJournal

----------------------------------------------------------------------------
(* Recurring journal entries: requests that run at the same time *)

\* Each request runs in one database transaction.  The transaction reads the
\* journal as it was when the request began; its inserts take fresh ids; its
\* write of next_recurring_date is an update of the template's row, and the
\* database refuses the update of a row that another transaction changed and
\* committed after this one began: the request fails as a whole.
tx_begin(r) ==
    /\ txn[r] = <<>>
    /\ txn' = [txn EXCEPT ![r] = <<journal>>]
    /\ UNCHANGED <<journal, result, notJournalTx>>

\* the rows a run of the method on the table before changed
WrittenRows(before, after) == {id \in DOMAIN before : after[id] # before[id]}

\* the committed journal after the transaction's writes and inserts are applied
Applied(committed, before, after, created) ==
    LET written == WrittenRows(before, after)
        inserts == Ascending(created)
        first == NextId(committed)
    IN [id \in DOMAIN committed \cup {first + i - 1 : i \in 1..Len(inserts)} |->
          IF id \in written THEN after[id]
          ELSE IF id \in DOMAIN committed THEN committed[id]
          ELSE after[inserts[id - first + 1]]]

\* the rest of the request: process_recurring_entries on what the transaction
\* sees, then the commit.  When the method raises, the controller catches the
\* exception and the request commits what was written; a caller that does not
\* catch rolls it back.
tx_commit(r) ==
    /\ txn[r] # <<>>
    /\ \E rollback \in BOOLEAN :
         LET before == txn[r][1]
             out == process_loop(before, Ascending(get_recurring_entries_due(before)), {})
             conflict == \E id \in WrittenRows(before, out.table) :
                            journal[id] # before[id]
             after == Applied(journal, before, out.table, out.created)
         IN /\ Cardinality(DOMAIN journal) + Cardinality(out.created) <= MaxJournal
            /\ IF conflict
               THEN /\ journal' = journal
                    /\ result' = Res("process_recurring_entries", {},
                                     "SerializationFailure")
               ELSE IF out.raised /\ rollback
               THEN /\ journal' = journal
                    /\ result' = Res("process_recurring_entries", {}, "ValueError")
               ELSE /\ journal' = after
                    /\ result' = Res("process_recurring_entries",
                                     DOMAIN after \ DOMAIN journal,
                                     IF out.raised THEN "ValueError" ELSE "ok")
    /\ txn' = [txn EXCEPT ![r] = <<>>]
    /\ UNCHANGED notJournalTx

----------------------------------------------------------------------------
(* CRM funnel analytics: the conversion rates *)

MaxLeads == 3

\* an Integer field takes any integer: a negative count can be written
LeadCounts == (0 - 1)..MaxLeads

\* A rate is kept as the fraction num / den the code computes, not rounded:
\* (a / b) * 100 is (100 * a) / b, and a / 0 raises ZeroDivisionError.
Rate(a, b) ==
    IF b = 0 THEN [kind |-> "ZeroDivisionError", num |-> 0, den |-> 1]
    ELSE [kind |-> "value", num |-> 100 * a, den |-> b]

ZeroRate == [kind |-> "value", num |-> 0, den |-> 1]

\* _compute_conversion_rates on one record
compute_rates_wrong(rec) ==
    [rec EXCEPT
        !.qualification_rate =
            IF rec.total_leads > 0 THEN Rate(rec.qualified_leads, rec.total_leads)
            ELSE ZeroRate,
        !.conversion_rate =
            IF rec.total_leads > 0 THEN Rate(rec.converted_leads, rec.qualified_leads)
            ELSE ZeroRate,
        !.overall_conversion_rate =
            IF rec.total_leads > 0 THEN Rate(rec.converted_leads, rec.total_leads)
            ELSE ZeroRate]

compute_conversion_rates(rec) ==
    [rec EXCEPT
        !.qualification_rate =
            IF rec.total_leads > 0 THEN Rate(rec.qualified_leads, rec.total_leads)
            ELSE ZeroRate,
        !.conversion_rate =
            IF rec.qualified_leads > 0 THEN Rate(rec.converted_leads, rec.qualified_leads)
            ELSE ZeroRate,
        !.overall_conversion_rate =
            IF rec.total_leads > 0 THEN Rate(rec.converted_leads, rec.total_leads)
            ELSE ZeroRate]

Raised(rec) ==
    \/ rec.qualification_rate.kind = "ZeroDivisionError"
    \/ rec.conversion_rate.kind = "ZeroDivisionError"
    \/ rec.overall_conversion_rate.kind = "ZeroDivisionError"

\* the counts are written, the rates recomputed; an exception undoes the write
SetCounts(total, qualified, converted, op) ==
    LET rec == compute_conversion_rates(
                   [funnel EXCEPT !.total_leads = total,
                                  !.qualified_leads = qualified,
                                  !.converted_leads = converted])
    IN IF Raised(rec)
       THEN /\ funnel' = funnel
            /\ result' = Res(op, {1}, "ZeroDivisionError")
       ELSE /\ funnel' = rec
            /\ result' = Res(op, {1}, "ok")

\* write(vals) of the counts
FunnelWrite ==
    /\ \E total \in LeadCounts, qualified \in LeadCounts, converted \in LeadCounts :
         SetCounts(total, qualified, converted, "write")
    /\ UNCHANGED notFunnel

\* _compute_analytics_data: the counts of the leads of the period, of the
\* qualified ones and of the converted ones among them
action_refresh_analytics ==
    /\ \E total \in 0..MaxLeads, qualified \in 0..MaxLeads, converted \in 0..MaxLeads :
         /\ qualified <= total
         /\ converted <= total
         /\ SetCounts(total, qualified, converted, "action_refresh_analytics")
    /\ UNCHANGED notFunnel

----------------------------------------------------------------------------
(* REST controllers: what leaves a controller method, and what it stores *)

MaxRows == 2

\* the rights of the requesting user that a method consults: read, and the one
\* its operation needs
UserRights(needs) == SUBSET {"read", needs}

\* the value a request body carries for the record
RowValues == {1, 2}

\* the request body: a JSON object, one without a name, not an object, not JSON
Bodies == {"dict", "no_name", "not_dict", "invalid"}

HTTPExceptions == {"NotFound", "BadRequest", "InternalServerError"}

\* what leaves a controller method: a response, or an exception
Json(code) == [kind |-> "json", code |-> code, raised |-> "none"]

ErrorJson(code) == [kind |-> "error", code |-> code, raised |-> "none"]

Raise(exc) == [kind |-> "raised", code |-> 0, raised |-> exc]

\* the except clauses of a method of GenericModelController: HTTPException is
\* raised again, any other exception becomes InternalServerError
generic_except(exc) ==
    IF exc \in HTTPExceptions THEN Raise(exc) ELSE Raise("InternalServerError")

\* the except clause of a method of HRController: _error_response(..., 500)
hr_except_reraise(exc) == Raise(exc)

hr_except(exc) == ErrorJson(500)

\* the except clause of the methods of AccountCustomAPI and of
\* HrApiController.create_employee: a dict with 'error' is returned
dict_except(exc) == ErrorJson(200)

\* HrApiController.get_employees has no try: the exception leaves the method
no_except(exc) == Raise(exc)

\* try: op() / except Exception as e: sudo().op() if "access denied" or
\* "permission denied" is in the text of e, else raise.  has_right: the user holds
\* the access right; denied_text: the framework's access error carries one of the
\* two texts; valid: the values pass the constraints of the model.
\* The result is "done", "done_sudo" or the exception that leaves the statement.
with_sudo_fallback(has_right, denied_text, valid) ==
    IF has_right THEN (IF valid THEN "done" ELSE "ValidationError")
    ELSE IF denied_text THEN (IF valid THEN "done_sudo" ELSE "ValidationError")
    ELSE "AccessError"

Done(outcome) == outcome \in {"done", "done_sudo"}

Insert(table, value) ==
    [last_id |-> table.last_id + 1,
     rows |-> table.rows @@ ((table.last_id + 1) :> value)]

Update(table, id, value) == [table EXCEPT !.rows[id] = value]

Delete(table, id) ==
    [table EXCEPT !.rows = [i \in DOMAIN table.rows \ {id} |-> table.rows[i]]]

\* The framework commits the request when the method returns and rolls it back
\* when an exception leaves the method.
Finish(controller, method, needs, rights, exc, out, new_store) ==
    /\ response' = [controller |-> controller, method |-> method, needs |-> needs,
                    rights |-> rights, exc |-> exc, out |-> out]
    /\ store' = IF out.kind = "raised" THEN store ELSE new_store

\* GenericModelController.create_record
create_record ==
    /\ store.last_id < MaxRows
    /\ \E rights \in UserRights("create"), model_found \in BOOLEAN, body \in Bodies,
          denied_text \in BOOLEAN, valid \in BOOLEAN, value \in RowValues :
         LET create == with_sudo_fallback("create" \in rights, denied_text, valid)
             exc == IF ~model_found THEN "NotFound"
                    ELSE IF body \in {"invalid", "not_dict"} THEN "BadRequest"
                    ELSE IF ~Done(create) THEN create
                    ELSE IF create = "done" /\ "read" \notin rights THEN "AccessError"
                    ELSE "none"
             created == model_found /\ body \in {"dict", "no_name"} /\ Done(create)
         IN Finish("GenericModelController", "create_record", "create", rights, exc,
                   IF exc = "none" THEN Json(201) ELSE generic_except(exc),
                   IF created THEN Insert(store, value) ELSE store)
    /\ UNCHANGED notHttp

\* GenericModelController.update_record
update_record ==
    /\ \E id \in 1..MaxRows, rights \in UserRights("write"), model_found \in BOOLEAN,
          body \in Bodies, denied_text \in BOOLEAN, valid \in BOOLEAN,
          value \in RowValues :
         LET write == with_sudo_fallback("write" \in rights, denied_text, valid)
             exc == IF ~model_found THEN "NotFound"
                    ELSE IF body \in {"invalid", "not_dict"} THEN "BadRequest"
                    ELSE IF id \notin DOMAIN store.rows THEN "NotFound"
                    ELSE IF ~Done(write) THEN write
                    ELSE IF "read" \notin rights THEN "AccessError"
                    ELSE "none"
             written == /\ model_found
                        /\ body \in {"dict", "no_name"}
                        /\ id \in DOMAIN store.rows
                        /\ Done(write)
         IN Finish("GenericModelController", "update_record", "write", rights, exc,
                   IF exc = "none" THEN Json(200) ELSE generic_except(exc),
                   IF written THEN Update(store, id, value) ELSE store)
    /\ UNCHANGED notHttp

\* GenericModelController.delete_record
delete_record ==
    /\ \E id \in 1..MaxRows, rights \in UserRights("unlink"), model_found \in BOOLEAN,
          denied_text \in BOOLEAN :
         LET unlink == with_sudo_fallback("unlink" \in rights, denied_text, TRUE)
             exc == IF ~model_found THEN "NotFound"
                    ELSE IF id \notin DOMAIN store.rows THEN "NotFound"
                    ELSE IF ~Done(unlink) THEN unlink
                    ELSE "none"
             deleted == model_found /\ id \in DOMAIN store.rows /\ Done(unlink)
         IN Finish("GenericModelController", "delete_record", "unlink", rights, exc,
                   IF exc = "none" THEN Json(200) ELSE generic_except(exc),
                   IF deleted THEN Delete(store, id) ELSE store)
    /\ UNCHANGED notHttp

\* GenericModelController.list_records: the query parameters may not parse (int()
\* raises ValueError, the domain is not JSON), the search needs the read right
list_records ==
    /\ \E rights \in UserRights("read"), model_found \in BOOLEAN,
          params \in {"ok", "bad_limit", "bad_domain"} :
         LET exc == IF ~model_found THEN "NotFound"
                    ELSE IF params = "bad_limit" THEN "ValueError"
                    ELSE IF params = "bad_domain" THEN "BadRequest"
                    ELSE IF "read" \notin rights THEN "AccessError"
                    ELSE "none"
         IN Finish("GenericModelController", "list_records", "read", rights, exc,
                   IF exc = "none" THEN Json(200) ELSE generic_except(exc), store)
    /\ UNCHANGED notHttp

\* HRController.create_employee: the checks before the create return an error
\* response themselves
hr_create_employee ==
    /\ store.last_id < MaxRows
    /\ \E rights \in UserRights("create"), model_found \in BOOLEAN, body \in Bodies,
          denied_text \in BOOLEAN, valid \in BOOLEAN, value \in RowValues :
         LET create == with_sudo_fallback("create" \in rights, denied_text, valid)
             early == IF ~model_found THEN 404
                      ELSE IF body # "dict" THEN 400
                      ELSE 0
             exc == IF early # 0 THEN "none"
                    ELSE IF ~Done(create) THEN create
                    ELSE IF create = "done" /\ "read" \notin rights THEN "AccessError"
                    ELSE "none"
             created == early = 0 /\ Done(create)
         IN Finish("HRController", "create_employee", "create", rights, exc,
                   IF early # 0 THEN ErrorJson(early)
                   ELSE IF exc = "none" THEN Json(201) ELSE hr_except(exc),
                   IF created THEN Insert(store, value) ELSE store)
    /\ UNCHANGED notHttp

\* HRController.update_employee
hr_update_employee ==
    /\ \E id \in 1..MaxRows, rights \in UserRights("write"), model_found \in BOOLEAN,
          body \in Bodies, denied_text \in BOOLEAN, valid \in BOOLEAN,
          value \in RowValues :
         LET write == with_sudo_fallback("write" \in rights, denied_text, valid)
             early == IF ~model_found THEN 404
                      ELSE IF body \in {"invalid", "not_dict"} THEN 400
                      ELSE IF id \notin DOMAIN store.rows THEN 404
                      ELSE 0
             exc == IF early # 0 THEN "none"
                    ELSE IF ~Done(write) THEN write
                    ELSE IF "read" \notin rights THEN "AccessError"
                    ELSE "none"
             written == early = 0 /\ Done(write)
         IN Finish("HRController", "update_employee", "write", rights, exc,
                   IF early # 0 THEN ErrorJson(early)
                   ELSE IF exc = "none" THEN Json(200) ELSE hr_except(exc),
                   IF written THEN Update(store, id, value) ELSE store)
    /\ UNCHANGED notHttp

\* HRController.delete_employee
hr_delete_employee ==
    /\ \E id \in 1..MaxRows, rights \in UserRights("unlink"), model_found \in BOOLEAN,
          denied_text \in BOOLEAN :
         LET unlink == with_sudo_fallback("unlink" \in rights, denied_text, TRUE)
             early == IF ~model_found THEN 404
                      ELSE IF id \notin DOMAIN store.rows THEN 404
                      ELSE 0
             exc == IF early # 0 THEN "none"
                    ELSE IF ~Done(unlink) THEN unlink
                    ELSE "none"
             deleted == early = 0 /\ Done(unlink)
         IN Finish("HRController", "delete_employee", "unlink", rights, exc,
                   IF early # 0 THEN ErrorJson(early)
                   ELSE IF exc = "none" THEN Json(200) ELSE hr_except(exc),
                   IF deleted THEN Delete(store, id) ELSE store)
    /\ UNCHANGED notHttp

\* HrApiController.get_employees: search_read with no try around it
get_employees ==
    /\ \E rights \in UserRights("read") :
         LET exc == IF "read" \notin rights THEN "AccessError" ELSE "none"
         IN Finish("HrApiController", "get_employees", "read", rights, exc,
                   IF exc = "none" THEN Json(200) ELSE no_except(exc), store)
    /\ UNCHANGED notHttp

\* HrApiController.create_employee: the create runs as the user, inside a try
api_create_employee ==
    /\ store.last_id < MaxRows
    /\ \E rights \in UserRights("create"), valid \in BOOLEAN, value \in RowValues :
         LET exc == IF "create" \notin rights THEN "AccessError"
                    ELSE IF ~valid THEN "ValidationError"
                    ELSE "none"
         IN Finish("HrApiController", "create_employee", "create", rights, exc,
                   IF exc = "none" THEN Json(200) ELSE dict_except(exc),
                   IF exc = "none" THEN Insert(store, value) ELSE store)
    /\ UNCHANGED notHttp

\* AccountCustomAPI.get_accounts: int() of the limit parameter may raise
\* ValueError; the search runs with sudo()
get_accounts ==
    /\ \E rights \in UserRights("read"), params \in {"ok", "bad_limit"} :
         LET exc == IF params = "bad_limit" THEN "ValueError" ELSE "none"
         IN Finish("AccountCustomAPI", "get_accounts", "read", rights, exc,
                   IF exc = "none" THEN Json(200) ELSE dict_except(exc), store)
    /\ UNCHANGED notHttp

----------------------------------------------------------------------------
(* Date ordering: hr.leave, hr.contract and crm.meeting *)

MaxDated == 1
MaxDay == 3

Days == 1..MaxDay

\* date_end of a contract is not required: False
NoDay == 0

DateKeys == {"start", "end"}

HrLeave(date_from, date_to) ==
    [model |-> "hr.leave", date_from |-> date_from, date_to |-> date_to]

HrContract(date_start, date_end) ==
    [model |-> "hr.contract", date_start |-> date_start, date_end |-> date_end]

CrmMeeting(start_datetime, end_datetime) ==
    [model |-> "crm.meeting", start_datetime |-> start_datetime,
     end_datetime |-> end_datetime]

\* HrLeave._check_dates: TRUE when it raises ValidationError
leave_check_dates_gt(leave, today) ==
    \/ leave.date_from > leave.date_to
    \/ leave.date_from < today

leave_check_dates(leave, today) ==
    \/ leave.date_from >= leave.date_to
    \/ leave.date_from < today

\* HrContract._check_dates
contract_check_dates(contract) ==
    contract.date_end # NoDay /\ contract.date_end <= contract.date_start

\* CrmMeeting._check_dates
meeting_check_dates(meeting) == meeting.end_datetime <= meeting.start_datetime

check_dates(rec, today) ==
    CASE rec.model = "hr.leave" -> leave_check_dates(rec, today)
      [] rec.model = "hr.contract" -> contract_check_dates(rec)
      [] rec.model = "crm.meeting" -> meeting_check_dates(rec)

\* the record after write(vals), vals holding the fields keys
WithDates(rec, keys, start, end) ==
    CASE rec.model = "hr.leave" ->
           HrLeave(IF "start" \in keys THEN start ELSE rec.date_from,
                   IF "end" \in keys THEN end ELSE rec.date_to)
      [] rec.model = "hr.contract" ->
           HrContract(IF "start" \in keys THEN start ELSE rec.date_start,
                      IF "end" \in keys THEN end ELSE rec.date_end)
      [] rec.model = "crm.meeting" ->
           CrmMeeting(IF "start" \in keys THEN start ELSE rec.start_datetime,
                      IF "end" \in keys THEN end ELSE rec.end_datetime)

\* create(vals): every constraint of the model runs on the new record
CreateDated(op, rec) ==
    /\ Cardinality(DOMAIN dated) < MaxDated
    /\ LET id == NextId(dated)
           after == dated @@ (id :> rec)
       IN /\ call' = [op |-> "create", after |-> after]
          /\ IF check_dates(rec, clock)
             THEN /\ dated' = dated
                  /\ result' = Res(op, {}, "ValidationError")
             ELSE /\ dated' = after
                  /\ result' = Res(op, {id}, "ok")
    /\ UNCHANGED <<clock, notDated>>

LeaveCreate ==
    \E date_from \in Days, date_to \in Days :
        CreateDated("hr.leave.create", HrLeave(date_from, date_to))

ContractCreate ==
    \E date_start \in Days, date_end \in Days \union {NoDay} :
        CreateDated("hr.contract.create", HrContract(date_start, date_end))

MeetingCreate ==
    \E start_datetime \in Days, end_datetime \in Days :
        CreateDated("crm.meeting.create", CrmMeeting(start_datetime, end_datetime))

\* write(vals) on one record: _check_dates runs when vals holds one of its two
\* fields; keys = {} is a write of other fields only (action_confirm,
\* action_activate, action_held write the state)
DatedWrite ==
    /\ \E id \in DOMAIN dated, keys \in SUBSET DateKeys, start \in Days,
          end \in Days \union {NoDay} :
         LET rec == WithDates(dated[id], keys, start, end)
             after == [dated EXCEPT ![id] = rec]
         IN /\ "start" \notin keys => start = 1
            /\ "end" \notin keys => end = 1
            /\ (end = NoDay /\ "end" \in keys) => rec.model = "hr.contract"
            /\ call' = [op |-> "write", after |-> after]
            /\ IF keys # {} /\ check_dates(rec, clock)
               THEN /\ dated' = dated
                    /\ result' = Res("write", {id}, "ValidationError")
               ELSE /\ dated' = after
                    /\ result' = Res("write", {id}, "ok")
    /\ UNCHANGED <<clock, notDated>>

\* time passes
Tick ==
    /\ clock < MaxDay
    /\ clock' = clock + 1
    /\ UNCHANGED <<dated, call, result, notDated>>

----------------------------------------------------------------------------
(* Account codes: unique within a company *)

MaxAccounts == 2

\* code: empty or set
Codes == {"", "1000", "2000"}

\* company_id: 0 is no company
Companies == {0, 1, 2}

Account == [code : Codes, company_id : Companies]

\* the fields whose write runs _check_account_code_uniqueness
uniqueness_constrains_code_only == {"code"}

uniqueness_constrains == {"code", "company_id"}

\* self.search([('code', '=', ...), ('company_id', '=', ...), ('id', '!=', ...)])
search_same_code(table, id) ==
    {other \in DOMAIN table :
        /\ table[other].code = table[id].code
        /\ table[other].company_id = table[id].company_id
        /\ other # id}

\* _check_account_code_uniqueness on the records self of the table: TRUE when it
\* raises ValidationError
check_account_code_uniqueness(table, self) ==
    \E id \in self :
        /\ table[id].code # ""
        /\ table[id].company_id # 0
        /\ search_same_code(table, id) # {}

\* create(vals_list) with one or two records
AccountCreate ==
    /\ \E vals_list \in [1..1 -> Account] \union [1..2 -> Account] :
         LET first == NextId(accounts)
             ids == {first + i - 1 : i \in 1..Len(vals_list)}
             after == accounts @@ [id \in ids |-> vals_list[id - first + 1]]
         IN /\ Cardinality(DOMAIN accounts) + Len(vals_list) <= MaxAccounts
            /\ call' = [op |-> "create", after |-> after]
            /\ IF check_account_code_uniqueness(after, ids)
               THEN /\ accounts' = accounts
                    /\ result' = Res("account.create", {}, "ValidationError")
               ELSE /\ accounts' = after
                    /\ result' = Res("account.create", ids, "ok")
    /\ UNCHANGED notAccounts

\* write(vals) on a recordset: the same values go to every record of it; keys = {}
\* is a write of other fields (action_update_budget, action_reconcile_account)
AccountWrite ==
    /\ \E self \in Recordsets(accounts), keys \in SUBSET {"code", "company_id"},
          vals \in Account :
         LET after == [id \in DOMAIN accounts |->
                         IF id \in self
                         THEN [code |-> IF "code" \in keys THEN vals.code
                                        ELSE accounts[id].code,
                               company_id |-> IF "company_id" \in keys
                                              THEN vals.company_id
                                              ELSE accounts[id].company_id]
                         ELSE accounts[id]]
         IN /\ "code" \notin keys => vals.code = ""
            /\ "company_id" \notin keys => vals.company_id = 0
            /\ call' = [op |-> "write", after |-> after]
            /\ IF /\ keys \intersect uniqueness_constrains # {}
                  /\ check_account_code_uniqueness(after, self)
               THEN /\ accounts' = accounts
                    /\ result' = Res("account.write", self, "ValidationError")
               ELSE /\ accounts' = after
                    /\ result' = Res("account.write", self, "ok")
    /\ UNCHANGED notAccounts

----------------------------------------------------------------------------
(* crm.lead: the generated lead_id *)

MaxLeadRows == 3
MaxRequests == 2

Requests == 1..MaxRequests

\* sequence.next_by_id(): the numbers of a sequence are given once each, also to
\* requests that run at the same time
SequenceId(number) == [kind |-> "sequence", number |-> number]

\* f'LEAD{(last_lead.id + 1):04d}', and 'LEAD0001' when there is no lead
FallbackId(table) ==
    [kind |-> "LEAD", number |-> IF DOMAIN table = {} THEN 1 ELSE Max(DOMAIN table) + 1]

\* _generate_lead_id: the value, read from the sequence and the leads the
\* request sees
generate_lead_id(sequence, table) ==
    IF sequence.exists THEN SequenceId(sequence.number_next) ELSE FallbackId(table)

\* create, first half: vals['lead_id'] = self._generate_lead_id()
lead_generate(r) ==
    /\ lead_req[r] = <<>>
    /\ Cardinality(DOMAIN leads) + Cardinality({q \in Requests : lead_req[q] # <<>>})
         < MaxLeadRows
    /\ lead_req' = [lead_req EXCEPT ![r] = <<generate_lead_id(lead_seq, leads)>>]
    /\ lead_seq' = IF lead_seq.exists
                   THEN [lead_seq EXCEPT !.number_next = @ + 1]
                   ELSE lead_seq
    /\ result' = Res("_generate_lead_id", {}, "ok")
    /\ UNCHANGED <<leads, notLeads>>

\* create, second half: super().create(vals) stores the lead under the next id
lead_insert(r) ==
    /\ lead_req[r] # <<>>
    /\ leads' = leads @@ (NextId(leads) :> [lead_id |-> lead_req[r][1]])
    /\ lead_req' = [lead_req EXCEPT ![r] = <<>>]
    /\ result' = Res("crm.lead.create", {NextId(leads)}, "ok")
    /\ UNCHANGED <<lead_seq, notLeads>>

\* an administrator defines the sequence with code 'crm.lead'
sequence_create ==
    /\ ~lead_seq.exists
    /\ lead_seq' = [lead_seq EXCEPT !.exists = TRUE]
    /\ UNCHANGED <<leads, lead_req, result, notLeads>>

----------------------------------------------------------------------------
(* hr.attendance: check_in and check_out *)

MaxAttendances == 2

\* check_in is required; check_out is False until the employee checks out
Attendance == [check_in : Days, check_out : Days \union {NoDay}]

\* _check_check_in_out: TRUE when it raises ValidationError
check_check_in_out(attendance) ==
    attendance.check_out # NoDay /\ attendance.check_out < attendance.check_in

\* create(vals): the constraint runs on the new record
AttendanceCreate ==
    /\ Cardinality(DOMAIN attendances) < MaxAttendances
    /\ \E vals \in Attendance :
         LET id == NextId(attendances)
             after == attendances @@ (id :> vals)
         IN /\ call' = [op |-> "create", after |-> after]
            /\ IF check_check_in_out(vals)
               THEN /\ attendances' = attendances
                    /\ result' = Res("hr.attendance.create", {}, "ValidationError")
               ELSE /\ attendances' = after
                    /\ result' = Res("hr.attendance.create", {id}, "ok")
    /\ UNCHANGED notAttendances

\* write(vals) on one record: the constraint runs when vals holds check_in or
\* check_out; keys = {} is a write of the state only (action_confirm_attendance)
AttendanceWrite ==
    /\ \E id \in DOMAIN attendances, keys \in SUBSET {"check_in", "check_out"},
          vals \in Attendance :
         LET rec == [check_in |-> IF "check_in" \in keys THEN vals.check_in
                                  ELSE attendances[id].check_in,
                     check_out |-> IF "check_out" \in keys THEN vals.check_out
                                   ELSE attendances[id].check_out]
             after == [attendances EXCEPT ![id] = rec]
         IN /\ "check_in" \notin keys => vals.check_in = 1
            /\ "check_out" \notin keys => vals.check_out = NoDay
            /\ call' = [op |-> "write", after |-> after]
            /\ IF keys # {} /\ check_check_in_out(rec)
               THEN /\ attendances' = attendances
                    /\ result' = Res("hr.attendance.write", {id}, "ValidationError")
               ELSE /\ attendances' = after
                    /\ result' = Res("hr.attendance.write", {id}, "ok")
    /\ UNCHANGED notAttendances

----------------------------------------------------------------------------
(* Specifications *)

MoveInit == moves = <<>>

ApprovalInit == approvals = <<>>

ReconInit ==
    /\ recons = <<>>
    /\ move_lines = <<>>

\* matching works on one reconciliation (ensure_one) and on the move lines the
\* accounting holds when it starts
MatchInit ==
    /\ \E sb \in Balances, eb \in Balances : recons = (1 :> NewRecon(sb, eb))
    /\ \E n \in 0..MaxMoveLines :
         \E amounts \in [1..n -> MoveLineVals], in_range \in [1..n -> BOOLEAN] :
            move_lines = [l \in 1..n |-> NewMoveLine(amounts[l], in_range[l])]

\* outside its own specification no call of the date arithmetic is pending
CalcIdle ==
    calc = [recurring_period |-> "daily", next_recurring_date |-> NoDate,
            called |-> TRUE, returned |-> Returned("False", NoDate)]

JournalInit == journal = <<>>

\* a new record: the counts default to 0 and the rates are computed from them
FunnelInit ==
    funnel = compute_conversion_rates(
                 [total_leads |-> 0, qualified_leads |-> 0, converted_leads |-> 0,
                  qualification_rate |-> ZeroRate, conversion_rate |-> ZeroRate,
                  overall_conversion_rate |-> ZeroRate])

HttpInit ==
    /\ store = [last_id |-> 0, rows |-> <<>>]
    /\ response = [controller |-> "none", method |-> "none", needs |-> "read",
                   rights |-> {}, exc |-> "none", out |-> Json(200)]

DatedInit ==
    /\ dated = <<>>
    /\ clock = 0
    /\ call = [op |-> "none", after |-> <<>>]

AccountInit == accounts = <<>>

LeadInit ==
    /\ leads = <<>>
    /\ lead_seq = [exists |-> FALSE, number_next |-> 1]
    /\ lead_req = [r \in Requests |-> <<>>]

AttendanceInit == attendances = <<>>

TxIdle == txn = [r \in Requests |-> <<>>]

\* the templates the journal holds when the requests arrive
TxInit ==
    \E n \in 1..MaxTemplates :
         \E vals \in [1..n -> TemplateVals] :
            journal = [id \in 1..n |-> NewTemplate(vals[id])]

Init ==
    /\ MoveInit
    /\ ApprovalInit
    /\ ReconInit
    /\ CalcIdle
    /\ JournalInit
    /\ FunnelInit
    /\ HttpInit
    /\ DatedInit
    /\ AccountInit
    /\ LeadInit
    /\ AttendanceInit
    /\ TxIdle
    /\ result = Res("init", {}, "ok")

Next ==
    \/ MoveCreate
    \/ MoveWriteLines
    \/ MoveWriteBoth
    \/ action_post
    \/ action_cancel

Spec == Init /\ [][Next]_vars

NextApproval ==
    \/ ApprovalCreate
    \/ action_submit_for_approval
    \/ action_approve_entry
    \/ action_reject_entry

SpecApproval == Init /\ [][NextApproval]_vars

NextRecon ==
    \/ ReconCreate
    \/ action_start_reconciliation
    \/ action_fail_reconciliation
    \/ action_complete_reconciliation
    \/ action_import_statement
    \/ action_create_adjustment_entry

SpecRecon == Init /\ [][NextRecon]_vars

InitMatch ==
    /\ MoveInit
    /\ ApprovalInit
    /\ MatchInit
    /\ CalcIdle
    /\ JournalInit
    /\ FunnelInit
    /\ HttpInit
    /\ DatedInit
    /\ AccountInit
    /\ LeadInit
    /\ AttendanceInit
    /\ TxIdle
    /\ result = Res("init", {}, "ok")

NextMatch ==
    \/ action_start_reconciliation
    \/ action_fail_reconciliation
    \/ action_complete_reconciliation
    \/ action_import_statement
    \/ action_auto_match_transactions
    \/ action_manual_match

SpecMatch == InitMatch /\ [][NextMatch]_vars

InitTx ==
    /\ MoveInit
    /\ ApprovalInit
    /\ ReconInit
    /\ CalcIdle
    /\ TxInit
    /\ TxIdle
    /\ FunnelInit
    /\ HttpInit
    /\ DatedInit
    /\ AccountInit
    /\ LeadInit
    /\ AttendanceInit
    /\ result = Res("init", {}, "ok")

NextTx ==
    \/ \E r \in Requests : tx_begin(r)
    \/ \E r \in Requests : tx_commit(r)

SpecTx == InitTx /\ [][NextTx]_vars

InitDate ==
    /\ MoveInit
    /\ ApprovalInit
    /\ ReconInit
    /\ CalcInit
    /\ JournalInit
    /\ FunnelInit
    /\ HttpInit
    /\ DatedInit
    /\ AccountInit
    /\ LeadInit
    /\ AttendanceInit
    /\ TxIdle
    /\ result = Res("init", {}, "ok")

NextDate == CalculateNext

SpecDate == InitDate /\ [][NextDate]_vars

NextJournal ==
    \/ JournalCreate
    \/ process_recurring_entries
    \/ action_create_recurring_entries

SpecJournal == Init /\ [][NextJournal]_vars

NextFunnel ==
    \/ FunnelWrite
    \/ action_refresh_analytics

SpecFunnel == Init /\ [][NextFunnel]_vars

NextHttp ==
    \/ create_record
    \/ update_record
    \/ delete_record
    \/ list_records
    \/ hr_create_employee
    \/ hr_update_employee
    \/ hr_delete_employee
    \/ get_employees
    \/ api_create_employee
    \/ get_accounts

SpecHttp == Init /\ [][NextHttp]_vars

NextDated ==
    \/ LeaveCreate
    \/ ContractCreate
    \/ MeetingCreate
    \/ DatedWrite
    \/ Tick

SpecDated == Init /\ [][NextDated]_vars

NextAccounts ==
    \/ AccountCreate
    \/ AccountWrite

SpecAccounts == Init /\ [][NextAccounts]_vars

NextLeads ==
    \/ \E r \in Requests : lead_generate(r)
    \/ \E r \in Requests : lead_insert(r)
    \/ sequence_create

SpecLeads == Init /\ [][NextLeads]_vars

NextAttendances ==
    \/ AttendanceCreate
    \/ AttendanceWrite

SpecAttendances == Init /\ [][NextAttendances]_vars

----------------------------------------------------------------------------
(* Claims *)

\* C1: every posted journal entry is balanced: the debits and the credits of
\* its lines are equal within the tolerance, whichever write came last.
C1_PostedIsBalanced ==
    \A id \in DOMAIN moves :
        moves[id].state = "posted" =>
            Abs(SumDebit(moves[id].line_ids) - SumCredit(moves[id].line_ids)) <= Tolerance

\* C3: approval_status moves only draft -> pending by action_submit_for_approval,
\* pending -> approved by action_approve_entry, pending or approved -> rejected by
\* action_reject_entry; an action called on a move in any other approval_status
\* leaves its approval_status, approved_by and approval_date as they were.
ApprovalStep(old, new, op) ==
    \/ old = "draft" /\ new = "pending" /\ op = "action_submit_for_approval"
    \/ old = "pending" /\ new = "approved" /\ op = "action_approve_entry"
    \/ old \in {"pending", "approved"} /\ new = "rejected" /\ op = "action_reject_entry"

ApprovalApplies(op, status) ==
    \/ op = "action_submit_for_approval" /\ status = "draft"
    \/ op = "action_approve_entry" /\ status = "pending"
    \/ op = "action_reject_entry" /\ status \in {"pending", "approved"}

C3_ApprovalTransitions ==
    [][\A id \in DOMAIN approvals :
         /\ id \in DOMAIN approvals'
         /\ approvals'[id].approval_status # approvals[id].approval_status =>
              ApprovalStep(approvals[id].approval_status,
                           approvals'[id].approval_status, result'.op)
         /\ ~ApprovalApplies(result'.op, approvals[id].approval_status) =>
              approvals'[id] = approvals[id]]_vars

\* a rejected move exists, and action_approve_entry has just been called on it
C3_Witness ==
    /\ result.op = "action_approve_entry"
    /\ \E id \in result.rec :
         /\ approvals[id].approval_status = "rejected"
         /\ approvals[id].approved_by # 0

\* C2: action_complete_reconciliation sets status to 'completed' only on a record
\* whose difference is zero; called on a record whose difference is not zero it
\* raises ValidationError and the status of that record stays as it was.
C2_CompleteOnlyZeroDifference ==
    [][/\ \A id \in DOMAIN recons :
            (recons'[id].status = "completed" /\ recons[id].status # "completed") =>
                /\ result'.op = "action_complete_reconciliation"
                /\ id \in result'.rec
                /\ recons[id].difference = 0
       /\ result'.op = "action_complete_reconciliation" =>
            \A id \in result'.rec :
                recons[id].difference # 0 =>
                    /\ result'.status = "ValidationError"
                    /\ recons'[id].status = recons[id].status]_vars

\* the action has just raised on a record with a difference, which is left in progress
C2_Witness ==
    /\ result.op = "action_complete_reconciliation"
    /\ result.status = "ValidationError"
    /\ \E id \in result.rec :
         recons[id].difference # 0 /\ recons[id].status = "in_progress"

\* the date k months after date, on the same day of the month (on the last day of
\* the month when the month is shorter)
MonthsAfter(date, k) ==
    LET m0 == (date.month - 1) + k
        y == date.year + (m0 \div 12)
        m == (m0 % 12) + 1
    IN Date(y, m, IF date.day <= DaysInMonth(y, m) THEN date.day ELSE DaysInMonth(y, m))

ExpectedNext(period, date) ==
    IF period = "daily" THEN AddDays(date, 1)
    ELSE IF period = "weekly" THEN AddDays(date, 7)
    ELSE IF period = "monthly" THEN MonthsAfter(date, 1)
    ELSE IF period = "quarterly" THEN MonthsAfter(date, 3)
    ELSE MonthsAfter(date, 12)

\* C4: for every valid date D in next_recurring_date and every recurring_period,
\* _calculate_next_recurring_date returns without raising a valid date later than
\* D: one day, one week, one month, three months or one year after D.
C4_NextDateReturned ==
    calc.called =>
        /\ calc.returned.kind = "date"
        /\ ValidDate(calc.returned.date)
        /\ DateLT(calc.next_recurring_date, calc.returned.date)
        /\ calc.returned.date = ExpectedNext(calc.recurring_period, calc.next_recurring_date)

\* C5: an entry created by _create_next_recurring_entry is not recurring and has
\* no next_recurring_date, so get_recurring_entries_due never returns it and no
\* entry is ever generated from it.
C5_GeneratedNotRecurring ==
    \A id \in DOMAIN journal :
        journal[id].origin # 0 =>
            /\ ~journal[id].is_recurring
            /\ journal[id].next_recurring_date = NoDate
            /\ id \notin get_recurring_entries_due(journal)
            /\ journal[journal[id].origin].origin = 0

\* an entry was generated with a date that is due, and process_recurring_entries
\* has run again since without creating anything
C5_Witness ==
    /\ result.op = "process_recurring_entries"
    /\ result.status = "ok"
    /\ result.rec = {}
    /\ \E id \in DOMAIN journal :
         journal[id].origin # 0 /\ DateLE(journal[id].date, Today)

\* rate is a / b x 100
IsPercentOf(rate, a, b) ==
    rate.kind = "value" /\ rate.den # 0 /\ rate.num * b = 100 * a * rate.den

IsZero(rate) == rate.kind = "value" /\ rate.num = 0

\* C6: qualification_rate = qualified_leads / total_leads x 100 and
\* overall_conversion_rate = converted_leads / total_leads x 100 when total_leads > 0,
\* conversion_rate = converted_leads / qualified_leads x 100 when qualified_leads > 0;
\* a rate whose denominator is 0 is 0, and no division error is raised.
C6_ConversionRates ==
    /\ result.status # "ZeroDivisionError"
    /\ funnel.total_leads > 0 =>
         /\ IsPercentOf(funnel.qualification_rate, funnel.qualified_leads, funnel.total_leads)
         /\ IsPercentOf(funnel.overall_conversion_rate, funnel.converted_leads,
                        funnel.total_leads)
    /\ funnel.qualified_leads > 0 =>
         IsPercentOf(funnel.conversion_rate, funnel.converted_leads, funnel.qualified_leads)
    /\ funnel.total_leads = 0 =>
         IsZero(funnel.qualification_rate) /\ IsZero(funnel.overall_conversion_rate)
    /\ funnel.qualified_leads = 0 => IsZero(funnel.conversion_rate)

\* leads were counted but none is qualified: one rate is a true percentage and
\* another one has a zero denominator
C6_Witness ==
    /\ result.op = "action_refresh_analytics"
    /\ funnel.total_leads > 1
    /\ funnel.qualified_leads = 0
    /\ funnel.converted_leads = 1
    /\ funnel.overall_conversion_rate.num > 0

\* C7 as stated: every controller method catches any exception raised while it
\* handles a request and returns a JSON body with an 'error' entry; no exception
\* leaves a controller method.
C7_NoExceptionLeaves ==
    /\ response.out.kind # "raised"
    /\ response.exc # "none" => response.out.kind = "error"

\* C7 as amended: the methods whose body is in a try with an except Exception
\* clause that returns (HRController, AccountCustomAPI, create_employee of
\* HrApiController) answer every exception with a JSON body that has an 'error'
\* entry; a method of GenericModelController lets an HTTPException through and
\* raises InternalServerError for any other exception; get_employees of
\* HrApiController lets every exception through.
Catching(controller, method) ==
    \/ controller \in {"HRController", "AccountCustomAPI"}
    \/ controller = "HrApiController" /\ method = "create_employee"

C7_ExceptionsByController ==
    response.exc # "none" =>
        /\ Catching(response.controller, response.method) =>
             response.out.kind = "error"
        /\ response.controller = "GenericModelController" =>
             /\ response.out.kind = "raised"
             /\ response.out.raised =
                  IF response.exc \in HTTPExceptions THEN response.exc
                  ELSE "InternalServerError"
        /\ (response.controller = "HrApiController" /\ response.method = "get_employees") =>
             /\ response.out.kind = "raised"
             /\ response.out.raised = response.exc

\* an exception was raised in a method of HRController and answered with an error body
C7_Witness ==
    /\ response.controller = "HRController"
    /\ response.exc = "ValidationError"
    /\ response.out = ErrorJson(500)

EndAfterStart(rec) ==
    CASE rec.model = "hr.leave" -> rec.date_to > rec.date_from
      [] rec.model = "hr.contract" ->
           rec.date_end = NoDay \/ rec.date_end > rec.date_start
      [] rec.model = "crm.meeting" -> rec.end_datetime > rec.start_datetime

Duplicate(table) ==
    \E a \in DOMAIN table, b \in DOMAIN table :
        /\ a # b
        /\ table[a].code # ""
        /\ table[a].company_id # 0
        /\ table[a].code = table[b].code
        /\ table[a].company_id = table[b].company_id

C11_LeadIdsUnique ==
    \A a \in DOMAIN leads, b \in DOMAIN leads :
        a # b => leads[a].lead_id # leads[b].lead_id

\* C12: every stored attendance that has a check_out has it strictly later than
\* its check_in, and a create or write whose check_out is at or before check_in
\* ends with ValidationError.
C12_CheckOutAfterCheckIn ==
    /\ \A id \in DOMAIN attendances :
         attendances[id].check_out # NoDay
           => attendances[id].check_out > attendances[id].check_in
    /\ (\E id \in DOMAIN call.after :
          /\ call.after[id].check_out # NoDay
          /\ call.after[id].check_out <= call.after[id].check_in)
         => result.status = "ValidationError"

\* C13: action_auto_match_transactions and action_manual_match, called on a
\* reconciliation whose status is not 'in_progress', raise ValidationError and
\* leave the reconciled flag of every move line and the two counters unchanged.
C13_MatchOnlyInProgress ==
    [][(/\ result'.op \in {"action_auto_match_transactions", "action_manual_match"}
        /\ \E id \in result'.rec : recons[id].status # "in_progress")
          => /\ result'.status = "ValidationError"
             /\ move_lines' = move_lines
             /\ \A id \in DOMAIN recons :
                  /\ recons'[id].matched_transactions = recons[id].matched_transactions
                  /\ recons'[id].unmatched_transactions
                       = recons[id].unmatched_transactions]_vars

\* a line was matched while the reconciliation was in progress; the reconciliation
\* then failed and a further auto-match was rejected
C13_Witness ==
    /\ result = Res("action_auto_match_transactions", {1}, "ValidationError")
    /\ recons[1].status = "failed"
    /\ recons[1].matched_transactions > 0
    /\ \E l \in DOMAIN move_lines : move_lines[l].reconciled

\* C15: matched_transactions + unmatched_transactions = total_transactions, and
\* each of the two counters lies between 0 and total_transactions.
C15_CountersPartitionTotal ==
    \A id \in DOMAIN recons :
        LET rec == recons[id]
        IN /\ rec.matched_transactions + rec.unmatched_transactions
                = rec.total_transactions
           /\ rec.matched_transactions \in 0..rec.total_transactions
           /\ rec.unmatched_transactions \in 0..rec.total_transactions

\* C14: in every state of a reconciliation record reconciled_balance =
\* starting_balance + total_credits - total_debits and difference =
\* ending_balance - reconciled_balance, also after action_create_adjustment_entry.
C14_DifferenceIsComputed ==
    \A id \in DOMAIN recons :
        LET rec == recons[id]
        IN /\ rec.reconciled_balance
                = rec.starting_balance + rec.total_credits - rec.total_debits
           /\ rec.difference = rec.ending_balance - rec.reconciled_balance

\* C20: once the status of a reconciliation is 'completed', none of
\* action_start_reconciliation, action_fail_reconciliation and
\* action_import_statement changes its status or its statement totals.
C20_CompletedIsFrozen ==
    [][\A id \in DOMAIN recons :
         (/\ recons[id].status = "completed"
          /\ result'.op \in {"action_start_reconciliation", "action_fail_reconciliation",
                             "action_import_statement"})
           => /\ recons'[id].status = "completed"
              /\ recons'[id].total_transactions = recons[id].total_transactions
              /\ recons'[id].total_debits = recons[id].total_debits
              /\ recons'[id].total_credits = recons[id].total_credits]_vars

\* the entries that a step made from template id
CreatedFrom(id) ==
    {n \in DOMAIN journal' \ DOMAIN journal : journal'[n].origin = id}

\* C16: with the current date fixed, repeated calls of process_recurring_entries
\* reach a state where nothing is due.  A call works on the journal alone, so a
\* call that leaves the journal as it found it is repeated without end: the claim
\* requires that such a call leaves nothing due.
C16_ProcessReachesNoneDue ==
    [][(result'.op = "process_recurring_entries" /\ journal' = journal)
          => get_recurring_entries_due(journal') = {}]_vars

\* C17: the entry that process_recurring_entries creates for a template whose
\* next_recurring_date is D is dated D.
C17_CreatedEntryDatedDue ==
    [][result'.op = "process_recurring_entries"
          => \A id \in DOMAIN journal : \A n \in CreatedFrom(id) :
                journal'[n].date = journal[id].next_recurring_date]_vars

\* C18: action_create_recurring_entries on a recordset of several templates creates
\* exactly one entry for each template of the set that is recurring and due, and
\* none for the other records.
C18_OneEntryPerDueTemplate ==
    [][(result'.op = "action_create_recurring_entries" /\ Cardinality(result'.rec) > 1)
          => \A id \in DOMAIN journal :
                Cardinality(CreatedFrom(id))
                  = IF id \in result'.rec /\ is_due(journal[id]) THEN 1 ELSE 0]_vars

====
